---- MODULE Spec2Model ----
(***************************************************************************)
(* Call builders of the generated Play Movies Partner client               *)
(* (src/gen/playmoviespartner1/src/api.rs) and the global parameters the   *)
(* generated CLI forwards to param()                                       *)
(* (src/gen/containeranalysis1-cli/src/main.rs).                           *)
(*                                                                         *)
(* One call builder is constructed through AccountMethods, configured by   *)
(* setters, param(), add_scope() and delegate(), and executed by doit().   *)
(* doit() is cut at its await points, an action being what runs between    *)
(* two of them: up to hub.auth.token().await (DoitBegin), from the token's *)
(* answer to client.request().await (ReceiveToken), from the response to   *)
(* get_body_as_string().await or, for a transport error, to the return or  *)
(* the next auth.token().await (ReceiveResponse), and from the body to the *)
(* return or the next auth.token().await (ReceiveBody).                    *)
(* The authenticator, the HTTP client, the server and the delegate are the *)
(* environment: their answers are chosen nondeterministically. Without a   *)
(* delegate() call doit() uses client::DefaultDelegate, whose code is not  *)
(* part of these sources: its answers are left open in the same way.       *)
(* The setters of the hub take &mut self and so run before a builder      *)
(* borrows the hub; HubSpec runs them.                                     *)
(*                                                                         *)
(* Strings are TLA+ strings. Option<T> is a sequence of length at most 1   *)
(* (<<>> is None, <<v>> is Some(v)). Vec<T> is a sequence. HashMap is a    *)
(* function on the set of its keys. BTreeMap<String, ()> is the sequence   *)
(* of its keys in ascending order.                                         *)
(***************************************************************************)
EXTENDS Integers, Sequences, FiniteSets, TLC

\* ------------------------------------------------------------------ bounds

\* Builder calls (setters, param, add_scope, delegate) made before doit().
MaxOps == 2

\* HTTP requests one doit() may issue before the environment stops asking
\* for a retry.
MaxRequests == 2

\* ------------------------------------------------------------ input values

\* Arguments of AccountMethods::orders_list and its siblings.
CtorValues == {"a"}

\* Arguments of the string setters.
Values == {"a", "b"}

\* What the setter of a required (path) parameter is given: the values
\* above, a value that is the text of a placeholder of a URL template and
\* a value that holds one between other text.
PathValues == Values \cup {"{orderId}", "x{orderId}y"}

\* Arguments of page_size (i32).
PageSizes == {-55, 7}

\* Values given to param().
ParamValues == {"v"}

\* ------------------------------------------------------------------ scopes

\* Scope::PlaymovyPartnerReadonly.as_ref()
DefaultScope == "https://www.googleapis.com/auth/playmovies_partner.readonly"

\* A scope that is not the default one.
OtherScope == "https://www.googleapis.com/auth/cloud-platform"

\* The scope strings in ascending (byte-wise) order, as String's Ord orders
\* the keys of a BTreeMap.
ScopeOrder == <<OtherScope, DefaultScope>>

Scopes == {ScopeOrder[i] : i \in DOMAIN ScopeOrder}

ScopeRank(s) == CHOOSE i \in DOMAIN ScopeOrder : ScopeOrder[i] = s

\* ---------------------------------------------------------------- sequences

Range(s) == {s[i] : i \in DOMAIN s}

RECURSIVE Concat(_)
Concat(ss) == IF ss = <<>> THEN <<>> ELSE Head(ss) \o Concat(Tail(ss))

\* The strings of a sequence as one string, sep between them.
RECURSIVE JoinSep(_, _)
JoinSep(ss, sep) ==
    IF ss = <<>> THEN ""
    ELSE IF Len(ss) = 1 THEN ss[1]
    ELSE ss[1] \o sep \o JoinSep(Tail(ss), sep)

\* ------------------------------------------------------------------ strings

\* The character of text at position i, counted from 1.
CharAt(text, i) == SubSeq(text, i, i)

\* pat stands in text at position i.
StartsWithAt(text, i, pat) ==
    /\ i + Len(pat) - 1 <= Len(text)
    /\ SubSeq(text, i, i + Len(pat) - 1) = pat

\* The least element of a non-empty set of numbers.
Least(S) == CHOOSE m \in S : \A n \in S : m <= n

\* text ends with pat.


\* Vec::remove(index), index counted from 0.
VecRemove(s, index) ==
    [i \in 1..(Len(s) - 1) |-> IF i <= index THEN s[i] ELSE s[i + 1]]

\* Iterator::position, counted from 0; <<>> when no element matches.
Position(s, name) ==
    LET hits == {i \in DOMAIN s : s[i][1] = name}
    IN  IF hits = {} THEN <<>>
        ELSE <<(CHOOSE i \in hits : \A j \in hits : i <= j) - 1>>

\* All orders in which the elements of a finite set can be enumerated.
RECURSIVE Orders(_)
Orders(S) ==
    IF S = {} THEN {<<>>}
    ELSE UNION {{<<x>> \o o : o \in Orders(S \ {x})} : x \in S}

\* ------------------------------------------------------------------ hub

\* PlayMovies::new
NewHub ==
    [_user_agent |-> "google-api-rust-client/3.0.0",
     _base_url   |-> "https://playmoviespartner.googleapis.com/",
     _root_url   |-> "https://playmoviespartner.googleapis.com/"]

\* Arguments of the hub's setters.
HubValues == {"https://u1/", "u2"}

\* Variant of MemReplace: the value returned is the one just stored.
MemReplaceReturnsNew(dest, src) == [dest |-> src, ret |-> src]

\* mem::replace(&mut dest, src): src is stored in dest and what dest held
\* is returned.
MemReplace(dest, src) == [dest |-> src, ret |-> dest]

\* ------------------------------------------------------- the call builders

Kinds == {"orders_list", "orders_get", "avails_list", "avails_get",
          "store_infos_country_get", "store_infos_list"}

P(name, field, type) == [name |-> name, field |-> field, type |-> type]

\* For each call builder its properties in the order in which doit() pushes
\* them onto params: the query/path name, the struct field and the field's
\* type ("String" for a required parameter).
ParamSpec(kind) ==
    CASE kind = "orders_list" ->
           <<P("accountId", "_account_id", "String"),
             P("videoIds", "_video_ids", "Vec"),
             P("studioNames", "_studio_names", "Vec"),
             P("status", "_status", "Vec"),
             P("pphNames", "_pph_names", "Vec"),
             P("pageToken", "_page_token", "Option"),
             P("pageSize", "_page_size", "OptionI32"),
             P("name", "_name", "Option"),
             P("customId", "_custom_id", "Option")>>
      [] kind = "orders_get" ->
           <<P("accountId", "_account_id", "String"),
             P("orderId", "_order_id", "String")>>
      [] kind = "avails_list" ->
           <<P("accountId", "_account_id", "String"),
             P("videoIds", "_video_ids", "Vec"),
             P("title", "_title", "Option"),
             P("territories", "_territories", "Vec"),
             P("studioNames", "_studio_names", "Vec"),
             P("pphNames", "_pph_names", "Vec"),
             P("pageToken", "_page_token", "Option"),
             P("pageSize", "_page_size", "OptionI32"),
             P("altIds", "_alt_ids", "Vec"),
             P("altId", "_alt_id", "Option")>>
      [] kind = "avails_get" ->
           <<P("accountId", "_account_id", "String"),
             P("availId", "_avail_id", "String")>>
      [] kind = "store_infos_country_get" ->
           <<P("accountId", "_account_id", "String"),
             P("videoId", "_video_id", "String"),
             P("country", "_country", "String")>>
      [] kind = "store_infos_list" ->
           <<P("accountId", "_account_id", "String"),
             P("videoIds", "_video_ids", "Vec"),
             P("videoId", "_video_id", "Option"),
             P("studioNames", "_studio_names", "Vec"),
             P("seasonIds", "_season_ids", "Vec"),
             P("pphNames", "_pph_names", "Vec"),
             P("pageToken", "_page_token", "Option"),
             P("pageSize", "_page_size", "OptionI32"),
             P("name", "_name", "Option"),
             P("mids", "_mids", "Vec"),
             P("countries", "_countries", "Vec")>>

\* Variant of ClashFields: the check list holds the call's own properties
\* and not "alt".
ClashFieldsWithoutAlt(kind) ==
    [i \in DOMAIN ParamSpec(kind) |-> ParamSpec(kind)[i].name]

\* The field list doit() checks _additional_params against, in its order.
ClashFields(kind) ==
    CASE kind = "orders_list" ->
           <<"alt", "accountId", "videoIds", "studioNames", "status",
             "pphNames", "pageToken", "pageSize", "name", "customId">>
      [] kind = "orders_get" -> <<"alt", "accountId", "orderId">>
      [] kind = "avails_list" ->
           <<"alt", "accountId", "videoIds", "title", "territories",
             "studioNames", "pphNames", "pageToken", "pageSize", "altIds",
             "altId">>
      [] kind = "avails_get" -> <<"alt", "accountId", "availId">>
      [] kind = "store_infos_country_get" ->
           <<"alt", "accountId", "videoId", "country">>
      [] kind = "store_infos_list" ->
           <<"alt", "accountId", "videoIds", "videoId", "studioNames",
             "seasonIds", "pphNames", "pageToken", "pageSize", "name",
             "mids", "countries">>

\* The path appended to the hub's base url, cut at its placeholders.
UrlTemplate(kind) ==
    CASE kind = "orders_list" -> "v1/accounts/{accountId}/orders"
      [] kind = "orders_get" -> "v1/accounts/{accountId}/orders/{orderId}"
      [] kind = "avails_list" -> "v1/accounts/{accountId}/avails"
      [] kind = "avails_get" -> "v1/accounts/{accountId}/avails/{availId}"
      [] kind = "store_infos_country_get" ->
           "v1/accounts/{accountId}/storeInfos/{videoId}/country/{country}"
      [] kind = "store_infos_list" -> "v1/accounts/{accountId}/storeInfos"

\* The (find_this, param_name) pairs of doit()'s substitution loop.
Replacements(kind) ==
    CASE kind \in {"orders_list", "avails_list", "store_infos_list"} ->
           << <<"{accountId}", "accountId">> >>
      [] kind = "orders_get" ->
           << <<"{accountId}", "accountId">>, <<"{orderId}", "orderId">> >>
      [] kind = "avails_get" ->
           << <<"{accountId}", "accountId">>, <<"{availId}", "availId">> >>
      [] kind = "store_infos_country_get" ->
           << <<"{accountId}", "accountId">>, <<"{videoId}", "videoId">>,
              <<"{country}", "country">> >>

\* The names doit() removes from params after the substitution, in its order.
RemovalNames(kind) ==
    CASE kind \in {"orders_list", "avails_list", "store_infos_list"} ->
           <<"accountId">>
      [] kind = "orders_get" -> <<"orderId", "accountId">>
      [] kind = "avails_get" -> <<"availId", "accountId">>
      [] kind = "store_infos_country_get" ->
           <<"country", "videoId", "accountId">>

\* ------------------------------------------------ additional parameters

\* The names listed under "Additional Parameters" in the documentation of
\* param().
AdditionalParameters ==
    {"upload_protocol", "prettyPrint", "uploadType", "fields", "callback",
     "$.xgafv", "alt", "access_token", "key", "quotaUser", "pp",
     "oauth_token", "bearer_token"}

\* Engine.gp: the global parameter names the CLI accepts for -p.
gp ==
    <<"$-xgafv", "access-token", "alt", "callback", "fields", "key",
      "oauth-token", "pretty-print", "quota-user", "upload-type",
      "upload-protocol">>

\* Engine.gpm: CLI name -> parameter name.
gpm ==
    << <<"$-xgafv", "$.xgafv">>,
       <<"access-token", "access_token">>,
       <<"oauth-token", "oauth_token">>,
       <<"pretty-print", "prettyPrint">>,
       <<"quota-user", "quotaUser">>,
       <<"upload-type", "uploadType">>,
       <<"upload-protocol", "upload_protocol">> >>

\* self.gpm.iter().find(|t| t.0 == key).unwrap_or(&("", key)).1
GlobalParamName(key) ==
    LET hits == {i \in DOMAIN gpm : gpm[i][1] = key}
    IN  IF hits = {} THEN key
        ELSE gpm[CHOOSE i \in hits : \A j \in hits : i <= j][2]

\* The names the CLI passes to param() for its -p arguments.
CliParamNames == {GlobalParamName(gp[i]) : i \in DOMAIN gp}

\* The names of the call's own properties: those with a setter.
PropertyNames(kind) == {ParamSpec(kind)[i].name : i \in DOMAIN ParamSpec(kind)}

\* The names param() is called with: the names of the call's own
\* properties, and of the other names (which doit() treats alike, "alt"
\* apart) those the CLI forwards for -p '$-xgafv', 'alt' and 'key' and the
\* documented "pp", which the CLI does not know.
ParamNames(kind) ==
    PropertyNames(kind)
      \cup {GlobalParamName(key) : key \in {"$-xgafv", "alt", "key"}}
      \cup {"pp"}

AllParamNames == UNION {ParamNames(kind) : kind \in Kinds}

\* ------------------------------------------------------------ the builder

NoCall == [kind |-> "none"]

FieldValue(type, arg) ==
    IF type = "String" THEN arg ELSE <<>>

\* AccountMethods::orders_list and its siblings: the required parameters
\* from the arguments, everything else Default::default().
NewCall(kind, args) ==
    LET spec == ParamSpec(kind)
        fields == {spec[i].field : i \in DOMAIN spec}
        entry(f) == spec[CHOOSE i \in DOMAIN spec : spec[i].field = f]
    IN  [f \in fields \cup {"kind", "_delegate", "_additional_params", "_scopes"} |->
            CASE f = "kind" -> kind
              [] f = "_delegate" -> FALSE
              [] f = "_additional_params" -> <<>>
              [] f = "_scopes" -> <<>>
              [] OTHER -> FieldValue(entry(f).type, args[f])]

FieldsOfType(kind, types) ==
    {ParamSpec(kind)[i].field :
        i \in {j \in DOMAIN ParamSpec(kind) : ParamSpec(kind)[j].type \in types}}

NameOfField(kind, f) ==
    ParamSpec(kind)[CHOOSE i \in DOMAIN ParamSpec(kind) :
                        ParamSpec(kind)[i].field = f].name

FieldOfName(kind, n) ==
    ParamSpec(kind)[CHOOSE i \in DOMAIN ParamSpec(kind) :
                        ParamSpec(kind)[i].name = n].field

\* The types of the properties that hold one value.
SingleValued == {"String", "Option", "OptionI32"}

\* self._page_token = Some(new_value...): the setter of an optional
\* property.
AssignSome(field_value, new_value) == <<new_value>>

\* HashMap::insert
HashMapInsert(m, k, v) ==
    [n \in (DOMAIN m) \cup {k} |-> IF n = k THEN v ELSE m[n]]

\* Variant of BTreeInsert: the scopes are kept in a Vec.
BTreeInsertAsVecPush(keys, k) == Append(keys, k)

\* BTreeMap::insert(key, ()): the keys stay in ascending order, a key that
\* is present stays once.
BTreeInsert(keys, k) ==
    IF k \in Range(keys) THEN keys
    ELSE LET before == SelectSeq(keys, LAMBDA x : ScopeRank(x) < ScopeRank(k))
             after  == SelectSeq(keys, LAMBDA x : ScopeRank(x) > ScopeRank(k))
         IN  before \o <<k>> \o after

\* add_scope: Some(scope) inserts the scope, None does nothing.
AddScopeTo(keys, scope) ==
    IF scope = <<>> THEN keys ELSE BTreeInsert(keys, scope[1])

\* Variant of VecPush: a value that is already present is not added again.
VecPushUnique(vec, new_value) ==
    IF new_value \in Range(vec) THEN vec ELSE Append(vec, new_value)

\* Vec::push of an add_* method.
VecPush(vec, new_value) == Append(vec, new_value)

\* --------------------------------------------------------- doit: the setup

Digit(d) ==
    CASE d = 0 -> "0" [] d = 1 -> "1" [] d = 2 -> "2" [] d = 3 -> "3"
      [] d = 4 -> "4" [] d = 5 -> "5" [] d = 6 -> "6" [] d = 7 -> "7"
      [] d = 8 -> "8" [] d = 9 -> "9"

RECURSIVE Decimal(_)
Decimal(n) ==
    IF n < 10 THEN Digit(n) ELSE Decimal(n \div 10) \o Digit(n % 10)

\* i32::to_string
I32ToString(n) == IF n < 0 THEN "-" \o Decimal(0 - n) ELSE Decimal(n)

\* What doit() pushes onto params for one property.
Pushed(c, p) ==
    CASE p.type = "String" -> << <<p.name, c[p.field]>> >>
      [] p.type = "Vec" ->
           [i \in 1..Len(c[p.field]) |-> <<p.name, c[p.field][i]>>]
      [] p.type = "Option" ->
           IF c[p.field] = <<>> THEN <<>>
           ELSE << <<p.name, c[p.field][1]>> >>
      [] p.type = "OptionI32" ->
           IF c[p.field] = <<>> THEN <<>>
           ELSE << <<p.name, I32ToString(c[p.field][1])>> >>

\* params after the pushes of the call's own properties.
KnownParams(c) ==
    Concat([i \in DOMAIN ParamSpec(c.kind) |-> Pushed(c, ParamSpec(c.kind)[i])])

\* The first field of the check list that is a key of _additional_params:
\* <<field>>, or <<>> when none is.
FieldClash(kind, additional) ==
    LET fields == ClashFields(kind)
        hits == {i \in DOMAIN fields : fields[i] \in DOMAIN additional}
    IN  IF hits = {} THEN <<>>
        ELSE <<fields[CHOOSE i \in hits : \A j \in hits : i <= j]>>

\* params with the additional parameters, pushed in the order the HashMap
\* iterates in, and "alt" = "json" at the end.
AllParams(c, order) ==
    KnownParams(c)
      \o [i \in DOMAIN order |-> <<order[i], c._additional_params[order[i]]>>]
      \o << <<"alt", "json">> >>

\* Variant of EffectiveScopes: the default scope is always added.
EffectiveScopesAlways(keys) ==
    IF DefaultScope \in Range(keys) THEN keys
    ELSE SelectSeq(keys, LAMBDA x : ScopeRank(x) < ScopeRank(DefaultScope))
           \o <<DefaultScope>>
           \o SelectSeq(keys, LAMBDA x : ScopeRank(x) > ScopeRank(DefaultScope))

\* The scopes doit() uses: the default scope if none was added.
EffectiveScopes(keys) ==
    IF Len(keys) = 0 THEN BTreeInsert(keys, DefaultScope) ELSE keys

\* String::replace from position i on: the occurrences of find_this are
\* looked for from left to right, each after the end of the one before, and
\* what was put in is not looked at again.
RECURSIVE ReplaceFrom(_, _, _, _)
ReplaceFrom(u, i, find_this, replace_with) ==
    LET found == {m \in i..Len(u) : StartsWithAt(u, m, find_this)}
    IN  IF found = {} THEN SubSeq(u, i, Len(u))
        ELSE SubSeq(u, i, Least(found) - 1) \o replace_with
                 \o ReplaceFrom(u, Least(found) + Len(find_this), find_this,
                                replace_with)

\* url.replace(find_this, replace_with)
Replace(u, find_this, replace_with) == ReplaceFrom(u, 1, find_this, replace_with)

\* The value of the first entry of params with the given name.
ReplaceWith(ps, param_name) ==
    LET at == Position(ps, param_name)
    IN  IF at = <<>> THEN <<>> ELSE <<ps[at[1] + 1][2]>>

\* The substitution loop; <<>> when expect() panics.
RECURSIVE Substitute(_, _, _)
Substitute(u, ps, pairs) ==
    IF pairs = <<>> THEN <<u>>
    ELSE LET with == ReplaceWith(ps, Head(pairs)[2])
         IN  IF with = <<>> THEN <<>>
             ELSE Substitute(Replace(u, Head(pairs)[1], with[1]), ps, Tail(pairs))

\* The indices collected for removal, each the position in the unchanged
\* params.
IndicesForRemoval(ps, names) ==
    Concat([i \in DOMAIN names |-> Position(ps, names[i])])

RECURSIVE RemoveAll(_, _)
RemoveAll(ps, indices) ==
    IF indices = <<>> THEN ps
    ELSE RemoveAll(VecRemove(ps, Head(indices)), Tail(indices))

\* The query pairs handed to Url::parse_with_params.
QueryParams(kind, ps) == RemoveAll(ps, IndicesForRemoval(ps, RemovalNames(kind)))

\* The characters a URL scheme is made of.
SchemeStart == "abcdefghijklmnopqrstuvwxyzABCDEFGHIJKLMNOPQRSTUVWXYZ"
SchemeRest == SchemeStart \o "0123456789+-."

Chars(text) == {CharAt(text, i) : i \in 1..Len(text)}

\* Url::parse finds a scheme at the start of the text: a letter, then
\* letters, digits, '+', '-' and '.', then ':'. Without one the text is a
\* relative URL, and parsing it with no base fails.
HasScheme(text) ==
    \E i \in 2..Len(text) :
        /\ CharAt(text, i) = ":"
        /\ CharAt(text, 1) \in Chars(SchemeStart)
        /\ \A j \in 2..(i - 1) : CharAt(text, j) \in Chars(SchemeRest)

\* The characters of a path that Url::parse percent-encodes, as far as a
\* text can hold them here. (The values of the model hold none of '?', '#',
\* '\' and no "." or ".." segment, which Url::parse reads as structure.)
PathEncoded == {" ", "\"", "<", ">", "{", "}"}

PathChar(c) ==
    CASE c = " " -> "%20"
      [] c = "\"" -> "%22"
      [] c = "<" -> "%3C"
      [] c = ">" -> "%3E"
      [] c = "{" -> "%7B"
      [] c = "}" -> "%7D"

\* The path encoding of text from position i on.
RECURSIVE PathEncodeFrom(_, _)
PathEncodeFrom(text, i) ==
    LET found == {m \in i..Len(text) : CharAt(text, m) \in PathEncoded}
    IN  IF found = {} THEN SubSeq(text, i, Len(text))
        ELSE SubSeq(text, i, Least(found) - 1)
                 \o PathChar(CharAt(text, Least(found)))
                 \o PathEncodeFrom(text, Least(found) + 1)

PathEncode(text) == PathEncodeFrom(text, 1)

\* The characters form_urlencoded::Serializer leaves as they are: letters,
\* digits, '*', '-', '.' and '_'.
FormKept == Chars(SchemeStart \o "0123456789*-._")

\* What it writes for any other character: '+' for a space, else the
\* percent-encoding.
FormChar(c) ==
    CASE c = " " -> "+"
      [] c = "!" -> "%21"
      [] c = "\"" -> "%22"
      [] c = "#" -> "%23"
      [] c = "$" -> "%24"
      [] c = "%" -> "%25"
      [] c = "&" -> "%26"
      [] c = "'" -> "%27"
      [] c = "(" -> "%28"
      [] c = ")" -> "%29"
      [] c = "+" -> "%2B"
      [] c = "," -> "%2C"
      [] c = "/" -> "%2F"
      [] c = ":" -> "%3A"
      [] c = ";" -> "%3B"
      [] c = "<" -> "%3C"
      [] c = "=" -> "%3D"
      [] c = ">" -> "%3E"
      [] c = "?" -> "%3F"
      [] c = "@" -> "%40"
      [] c = "[" -> "%5B"
      [] c = "\\" -> "%5C"
      [] c = "]" -> "%5D"
      [] c = "^" -> "%5E"
      [] c = "{" -> "%7B"
      [] c = "|" -> "%7C"
      [] c = "}" -> "%7D"
      [] c = "~" -> "%7E"

\* The encoding of a name or a value of the query from position i on.
RECURSIVE FormEncodeFrom(_, _)
FormEncodeFrom(text, i) ==
    LET found == {m \in i..Len(text) : CharAt(text, m) \notin FormKept}
    IN  IF found = {} THEN SubSeq(text, i, Len(text))
        ELSE SubSeq(text, i, Least(found) - 1)
                 \o FormChar(CharAt(text, Least(found)))
                 \o FormEncodeFrom(text, Least(found) + 1)

FormEncode(text) == FormEncodeFrom(text, 1)

\* Url::parse_with_params(&url, params): <<>> when the URL has no scheme
\* (unwrap() panics with RelativeUrlWithoutBase), else <<the URL>>: the
\* text with its path encoded, then '?' and the encoded pairs.
ParseWithParams(u, ps) ==
    IF ~HasScheme(u) THEN <<>>
    ELSE <<PathEncode(u) \o "?"
            \o JoinSep([i \in DOMAIN ps |->
                           FormEncode(ps[i][1]) \o "=" \o FormEncode(ps[i][2])],
                       "&")>>

\* ------------------------------------------------------- doit: the loop

\* The results client.request() can have, as far as doit() tells them
\* apart: a transport error, a non-success status with a body that is or is
\* not JSON, a success status with a body that does or does not decode.
Responses == {"Err", "FailJson", "FailText", "OkDecoded", "OkUndecodable"}

\* What Delegate::http_error and Delegate::http_failure can answer.
Retries == {"Retry", "Abort"}

NoResult == [type |-> "none"]
\* Ok((res, decoded)): the response and the value decoded from its body.
Ok == [type |-> "Ok", carries |-> <<"res", "decoded">>]
Err(e) == [type |-> "Err", error |-> e]
ErrField(e, field) == [type |-> "Err", error |-> e, field |-> field]
ErrWith(e, payload) == [type |-> "Err", error |-> e, carries |-> payload]

\* A token: who gave it, and in which loop iteration.
Token(from, n) == [from |-> from, iteration |-> n]

\* Variant of TokenMatch: without a token the request is sent anyway.
TokenMatchUnchecked(authOk, dlgSome, n) ==
    IF authOk
    THEN [events |-> <<"auth.token:Ok">>, token |-> <<Token("auth", n)>>,
          ret |-> NoResult]
    ELSE IF dlgSome
    THEN [events |-> <<"auth.token:Err", "dlg.token:Some">>,
          token |-> <<Token("dlg", n)>>, ret |-> NoResult]
    ELSE [events |-> <<"auth.token:Err", "dlg.token:None">>,
          token |-> <<>>, ret |-> NoResult]

\* Variant of TokenMatch: MissingToken is returned without finished(false).
TokenMatchNoFinished(authOk, dlgSome, n) ==
    IF authOk
    THEN [events |-> <<"auth.token:Ok">>, token |-> <<Token("auth", n)>>,
          ret |-> NoResult]
    ELSE IF dlgSome
    THEN [events |-> <<"auth.token:Err", "dlg.token:Some">>,
          token |-> <<Token("dlg", n)>>, ret |-> NoResult]
    ELSE [events |-> <<"auth.token:Err", "dlg.token:None">>,
          token |-> <<>>, ret |-> Err("MissingToken")]

\* The token match at the top of loop iteration n. authOk: hub.auth.token()
\* returned Ok; dlgSome: the delegate's token() returned Some.
TokenMatch(authOk, dlgSome, n) ==
    IF authOk
    THEN [events |-> <<"auth.token:Ok">>, token |-> <<Token("auth", n)>>,
          ret |-> NoResult]
    ELSE IF dlgSome
    THEN [events |-> <<"auth.token:Err", "dlg.token:Some">>,
          token |-> <<Token("dlg", n)>>, ret |-> NoResult]
    ELSE [events |-> <<"auth.token:Err", "dlg.token:None", "finished(false)">>,
          token |-> <<>>, ret |-> Err("MissingToken")]

\* Variant of OnHttpError: the error is returned without asking the
\* delegate.
OnHttpErrorUnasked(answer) ==
    [events |-> <<"finished(false)">>, again |-> FALSE, ret |-> Err("HttpError")]

\* Variant of OnHttpError: the loop goes on whatever the delegate answers.
OnHttpErrorAlwaysRetry(answer) ==
    [events |-> <<"http_error:" \o answer, "sleep">>, again |-> TRUE,
     ret |-> NoResult]

\* The Err(err) arm of the match on the request's result.
OnHttpError(answer) ==
    IF answer = "Retry"
    THEN [events |-> <<"http_error:Retry", "sleep">>, again |-> TRUE,
          ret |-> NoResult]
    ELSE [events |-> <<"http_error:Abort", "finished(false)">>, again |-> FALSE,
          ret |-> Err("HttpError")]

\* Variant of OnHttpFailure: the parsed body is not looked at.
OnHttpFailureUnparsed(json, answer) ==
    IF answer = "Retry"
    THEN [events |-> <<"http_failure:Retry", "sleep">>, again |-> TRUE,
          ret |-> NoResult]
    ELSE [events |-> <<"http_failure:Abort", "finished(false)">>,
          again |-> FALSE,
          ret |-> ErrWith("Failure", "restored_response")]

\* The arm for a response without a success status; json: the body parsed
\* as a JSON value.
OnHttpFailure(json, answer) ==
    IF answer = "Retry"
    THEN [events |-> <<"http_failure:Retry", "sleep">>, again |-> TRUE,
          ret |-> NoResult]
    ELSE [events |-> <<"http_failure:Abort", "finished(false)">>,
          again |-> FALSE,
          ret |-> IF json THEN ErrWith("BadRequest", "error_value")
                  ELSE ErrWith("Failure", "restored_response")]

\* Variant of OnSuccess: a success status is Ok whatever the body holds.
OnSuccessUndecoded(decoded) ==
    [events |-> <<"finished(true)">>, again |-> FALSE, ret |-> Ok]

\* The arm for a response with a success status.
OnSuccess(decoded) ==
    IF decoded
    THEN [events |-> <<"finished(true)">>, again |-> FALSE, ret |-> Ok]
    ELSE [events |-> <<"response_json_decode_error">>, again |-> FALSE,
          ret |-> Err("JsonDecodeError")]

\* match req_result
MatchResult(r, answer) ==
    CASE r = "Err" -> OnHttpError(answer)
      [] r = "FailJson" -> OnHttpFailure(TRUE, answer)
      [] r = "FailText" -> OnHttpFailure(FALSE, answer)
      [] r = "OkDecoded" -> OnSuccess(TRUE)
      [] r = "OkUndecodable" -> OnSuccess(FALSE)

\* ------------------------------------------------------------------ state

VARIABLES
    hub,          \* the PlayMovies hub
    hubArgs,      \* per hub setter, the argument of its last call
    returned,     \* what the last call of a hub setter returned
    call,         \* the call builder (NoCall before it is constructed)
    ops,          \* number of builder calls made
    scopesAdded,  \* the scopes add_scope was called with (as Some)
    scopeNone,    \* the most recent add_scope call was add_scope(None)
    appended,     \* per repeated property, the values its add_* got, in order
    lastSet,      \* per single-valued property, the value it was given last
    pc,           \* "hub", "build", "done", and where doit() is suspended:
                  \* "token" in auth.token().await, "request" in
                  \* client.request().await, "response" in
                  \* get_body_as_string().await
    url,          \* doit: the URL after substitution
    params,       \* doit: the query pairs
    iteration,    \* doit: number of the loop iteration
    iter,         \* doit: the calls made since the loop iteration began
    token,        \* doit: the token of this iteration
    authScopes,   \* doit: the scopes hub.auth.token() was last called with
    nTokens,      \* doit: calls of hub.auth.token()
    nRequests,    \* doit: requests sent
    nRetries,     \* doit: Retry::After answers of the delegate
    request,      \* doit: the request sent last
    resp,         \* doit: the result of the request of this iteration
    result        \* doit: its return value

hubState == <<hub, hubArgs, returned>>
builder == <<call, ops, scopesAdded, scopeNone, appended, lastSet>>
setup == <<url, params>>
loop == <<iteration, iter, token, authScopes, nTokens, nRequests, nRetries,
         request, resp>>
vars == <<hubState, builder, pc, setup, loop, result>>

NoRequest == [sent |-> FALSE]

\* No hub setter was called.
NoReturn == [setter |-> "none"]

\* What the documentation of the hub setters gives as the defaults.
HubDefaults ==
    [user_agent |-> "google-api-rust-client/3.0.0",
     base_url |-> "https://playmoviespartner.googleapis.com/",
     root_url |-> "https://playmoviespartner.googleapis.com/"]

Init ==
    /\ hub = NewHub
    /\ hubArgs = HubDefaults
    /\ returned = NoReturn
    /\ call = NoCall
    /\ ops = 0
    /\ scopesAdded = {}
    /\ scopeNone = FALSE
    /\ appended = <<>>
    /\ lastSet = <<>>
    /\ pc = "hub"
    /\ url = ""
    /\ params = <<>>
    /\ iteration = 0
    /\ iter = <<>>
    /\ token = <<>>
    /\ authScopes = <<>>
    /\ nTokens = 0
    /\ nRequests = 0
    /\ nRetries = 0
    /\ request = NoRequest
    /\ resp = "none"
    /\ result = NoResult

\* ---------------------------------------------------------------- actions

\* hub.accounts().orders_list(account_id) and its siblings.
Construct(kind, args) ==
    /\ pc = "hub"
    /\ call' = NewCall(kind, args)
    /\ appended' = [n \in {NameOfField(kind, f) : f \in FieldsOfType(kind, {"Vec"})}
                       |-> <<>>]
    /\ lastSet' = [n \in {NameOfField(kind, f) :
                             f \in FieldsOfType(kind, SingleValued)}
                      |-> call'[FieldOfName(kind, n)]]
    /\ pc' = "build"
    /\ UNCHANGED <<hubState, ops, scopesAdded, scopeNone, setup, loop, result>>

\* Variant of Building: doit() borrows the builder, which stays usable.
BuildingAnytime == pc # "hub" /\ ops < MaxOps

\* A builder method can be called: the builder exists and doit(), which
\* takes it by value, was not called.
Building == pc = "build" /\ ops < MaxOps

\* account_id, order_id, avail_id, video_id, country: the setters of the
\* required parameters.
SetRequired(field, new_value) ==
    /\ Building
    /\ field \in FieldsOfType(call.kind, {"String"})
    /\ call' = [call EXCEPT ![field] = new_value]
    /\ lastSet' = [lastSet EXCEPT ![NameOfField(call.kind, field)] = new_value]
    /\ ops' = ops + 1
    /\ UNCHANGED <<hubState, scopesAdded, scopeNone, appended, pc, setup, loop,
                   result>>

\* add_video_ids, add_studio_names, ...: append to a repeated property.
AddRepeated(field, new_value) ==
    /\ Building
    /\ field \in FieldsOfType(call.kind, {"Vec"})
    /\ call' = [call EXCEPT ![field] = VecPush(@, new_value)]
    /\ appended' = [appended EXCEPT ![NameOfField(call.kind, field)] =
                        Append(@, new_value)]
    /\ ops' = ops + 1
    /\ UNCHANGED <<hubState, scopesAdded, scopeNone, lastSet, pc, setup, loop,
                   result>>

\* page_token, name, custom_id, title, alt_id, video_id: the setters of the
\* optional string properties.
SetOptional(field, new_value) ==
    /\ Building
    /\ field \in FieldsOfType(call.kind, {"Option"})
    /\ call' = [call EXCEPT ![field] = AssignSome(@, new_value)]
    /\ lastSet' = [lastSet EXCEPT ![NameOfField(call.kind, field)] =
                       <<new_value>>]
    /\ ops' = ops + 1
    /\ UNCHANGED <<hubState, scopesAdded, scopeNone, appended, pc, setup, loop,
                   result>>

\* page_size
SetPageSize(new_value) ==
    /\ Building
    /\ "_page_size" \in DOMAIN call
    /\ call' = [call EXCEPT !._page_size = AssignSome(@, new_value)]
    /\ lastSet' = [lastSet EXCEPT !["pageSize"] = <<new_value>>]
    /\ ops' = ops + 1
    /\ UNCHANGED <<hubState, scopesAdded, scopeNone, appended, pc, setup, loop,
                   result>>

\* delegate
Delegate ==
    /\ Building
    /\ call' = [call EXCEPT !._delegate = TRUE]
    /\ ops' = ops + 1
    /\ UNCHANGED <<hubState, scopesAdded, scopeNone, appended, lastSet, pc, setup, loop,
                   result>>

\* param
Param(name, value) ==
    /\ Building
    /\ name \in ParamNames(call.kind)
    /\ call' = [call EXCEPT !._additional_params = HashMapInsert(@, name, value)]
    /\ ops' = ops + 1
    /\ UNCHANGED <<hubState, scopesAdded, scopeNone, appended, lastSet, pc, setup, loop,
                   result>>

\* add_scope; scope is <<>> for None and <<s>> for Some(s).
AddScope(scope) ==
    /\ Building
    /\ call' = [call EXCEPT !._scopes = AddScopeTo(@, scope)]
    /\ scopesAdded' = scopesAdded \cup Range(scope)
    /\ scopeNone' = (scope = <<>>)
    /\ ops' = ops + 1
    /\ UNCHANGED <<hubState, appended, lastSet, pc, setup, loop, result>>

\* The top of the loop: hub.auth.token(scopes) is called and awaited.
LoopTop(scopes) ==
    /\ iteration' = iteration + 1
    /\ nTokens' = nTokens + 1
    /\ authScopes' = scopes
    /\ pc' = "token"

\* doit() up to the first await: begin, params, the field clash check, the
\* default scope, the URL, and the call of hub.auth.token at the top of the
\* loop. order: the order in which the HashMap iterates, which is
\* unspecified.
DoitBegin ==
    /\ pc = "build"
    /\ \E order \in Orders(DOMAIN call._additional_params) :
       LET clash == FieldClash(call.kind, call._additional_params)
           all == AllParams(call, order)
           u == Substitute(hub._base_url \o UrlTemplate(call.kind), all,
                           Replacements(call.kind))
           query == QueryParams(call.kind, all)
           parsed == IF u = <<>> THEN <<>> ELSE ParseWithParams(u[1], query)
       IN  IF clash # <<>>
           THEN /\ iter' = <<"begin", "finished(false)">>
                /\ result' = ErrField("FieldClash", clash[1])
                /\ pc' = "done"
                /\ UNCHANGED <<call, setup, iteration, nTokens, authScopes>>
           ELSE IF parsed = <<>>
           THEN /\ iter' = <<"begin">>
                /\ result' = Err("panic")
                /\ pc' = "done"
                /\ call' = [call EXCEPT !._scopes = EffectiveScopes(@)]
                /\ UNCHANGED <<setup, iteration, nTokens, authScopes>>
           ELSE /\ iter' = <<"begin">>
                /\ call' = [call EXCEPT !._scopes = EffectiveScopes(@)]
                /\ url' = parsed[1]
                /\ params' = query
                /\ LoopTop(EffectiveScopes(call._scopes))
                /\ UNCHANGED result
    /\ UNCHANGED <<hubState, ops, scopesAdded, scopeNone, appended, lastSet, token,
                   nRequests, nRetries, request, resp>>

\* The token's answer arrives: the match on it, the delegate's token() if
\* the authenticator failed, and with a token pre_request and the call of
\* client.request(), which is awaited.
ReceiveToken(authOk, dlgSome) ==
    /\ pc = "token"
    /\ LET m == TokenMatch(authOk, dlgSome, iteration)
       IN  /\ token' = m.token
           /\ result' = m.ret
           /\ IF m.ret = NoResult
              THEN /\ iter' = m.events \o <<"pre_request", "request">>
                   /\ request' = [sent |-> TRUE, url |-> url, query |-> params,
                                  user_agent |-> hub._user_agent,
                                  authorization |-> m.token,
                                  iteration |-> iteration]
                   /\ nRequests' = nRequests + 1
                   /\ pc' = "request"
              ELSE /\ iter' = m.events
                   /\ pc' = "done"
                   /\ UNCHANGED <<request, nRequests>>
    /\ resp' = "none"
    /\ UNCHANGED <<hubState, builder, setup, iteration, authScopes, nTokens,
                   nRetries>>

\* What follows an arm m of the match on the request's result: the loop
\* starts again at its top, or doit() returns. answer: what the delegate
\* answered; it stops answering Retry::After once MaxRequests requests
\* were sent.
Matched(m, asked, answer) ==
    /\ answer = "Retry" => nRequests < MaxRequests
    /\ iter' = iter \o m.events
    /\ result' = m.ret
    /\ IF m.again
       THEN LoopTop(call._scopes)
       ELSE /\ pc' = "done"
            /\ UNCHANGED <<iteration, nTokens, authScopes>>
    /\ nRetries' = IF asked /\ answer = "Retry" THEN nRetries + 1 ELSE nRetries

\* The request's result r arrives. A transport error goes to the
\* delegate's http_error at once; of a response the body is read first,
\* which is awaited.
ReceiveResponse(r, answer) ==
    /\ pc = "request"
    /\ resp' = r
    /\ IF r = "Err"
       THEN Matched(MatchResult(r, answer), TRUE, answer)
       ELSE /\ pc' = "response"
            /\ UNCHANGED <<iter, result, iteration, nTokens, authScopes,
                           nRetries>>
    /\ UNCHANGED <<hubState, builder, setup, token, nRequests, request>>

\* The body of the response arrives: the rest of the Ok(res) arm.
ReceiveBody(answer) ==
    /\ pc = "response"
    /\ Matched(MatchResult(resp, answer), resp \in {"FailJson", "FailText"},
               answer)
    /\ UNCHANGED <<hubState, builder, setup, token, nRequests, request, resp>>

RequiredArgs(kind) == [FieldsOfType(kind, {"String"}) -> CtorValues]

Next ==
    \/ \E kind \in Kinds : \E args \in RequiredArgs(kind) : Construct(kind, args)
    \/ \E field \in DOMAIN call, v \in PathValues : SetRequired(field, v)
    \/ \E field \in DOMAIN call, v \in Values : AddRepeated(field, v)
    \/ \E field \in DOMAIN call, v \in Values : SetOptional(field, v)
    \/ \E n \in PageSizes : SetPageSize(n)
    \/ Delegate
    \/ \E name \in AllParamNames, v \in ParamValues : Param(name, v)
    \/ \E scope \in {<<>>} \cup {<<s>> : s \in Scopes} : AddScope(scope)
    \/ DoitBegin
    \/ \E authOk \in BOOLEAN, dlgSome \in BOOLEAN : ReceiveToken(authOk, dlgSome)
    \/ \E r \in Responses, answer \in Retries : ReceiveResponse(r, answer)
    \/ \E answer \in Retries : ReceiveBody(answer)

Spec == Init /\ [][Next]_vars

\* ------------------------------------------------- the hub's setters

\* A hub setter takes &mut self: it can be called while no builder, which
\* borrows the hub, exists.
HubCall(setter, r, argument) ==
    /\ pc = "hub"
    /\ returned' = [setter |-> setter, value |-> r.ret,
                    previous |-> hubArgs[setter]]
    /\ hubArgs' = [hubArgs EXCEPT ![setter] = argument]
    /\ UNCHANGED <<builder, pc, setup, loop, result>>

\* PlayMovies::user_agent
UserAgent(agent_name) ==
    LET r == MemReplace(hub._user_agent, agent_name)
    IN  /\ HubCall("user_agent", r, agent_name)
        /\ hub' = [hub EXCEPT !._user_agent = r.dest]

\* PlayMovies::base_url
BaseUrl(new_base_url) ==
    LET r == MemReplace(hub._base_url, new_base_url)
    IN  /\ HubCall("base_url", r, new_base_url)
        /\ hub' = [hub EXCEPT !._base_url = r.dest]

\* PlayMovies::root_url
RootUrl(new_root_url) ==
    LET r == MemReplace(hub._root_url, new_root_url)
    IN  /\ HubCall("root_url", r, new_root_url)
        /\ hub' = [hub EXCEPT !._root_url = r.dest]

\* The hub is configured, then a builder is constructed and executed as
\* it is.
HubNext ==
    \/ \E v \in HubValues : UserAgent(v)
    \/ \E v \in HubValues : BaseUrl(v)
    \/ \E v \in HubValues : RootUrl(v)
    \/ \E kind \in Kinds : \E args \in RequiredArgs(kind) : Construct(kind, args)
    \/ DoitBegin
    \/ \E authOk \in BOOLEAN, dlgSome \in BOOLEAN : ReceiveToken(authOk, dlgSome)
    \/ \E r \in Responses, answer \in Retries : ReceiveResponse(r, answer)
    \/ \E answer \in Retries : ReceiveBody(answer)

HubSpec == Init /\ [][HubNext]_vars

\* ------------------------------------------------------------ properties

\* doit() has begun.
Started == pc \in {"token", "request", "response", "done"}

Count(s, e) == Cardinality({i \in DOMAIN s : s[i] = e})

Asked(hook) == Count(iter, hook \o ":Retry") + Count(iter, hook \o ":Abort")

Finished == Count(iter, "finished(false)") + Count(iter, "finished(true)")

\* The known parameters of a call: its own properties (those with a setter,
\* the required path parameters among them) and "alt".
KnownParameters(kind) == PropertyNames(kind) \cup {"alt"}

\* The values of the pairs with the given name, in their order.
ValuesOf(ps, name) ==
    LET named == SelectSeq(ps, LAMBDA pair : pair[1] = name)
    IN  [i \in DOMAIN named |-> named[i][2]]

StrictlyAscending(keys) ==
    \A i, j \in DOMAIN keys : i < j => ScopeRank(keys[i]) < ScopeRank(keys[j])

\* C1: if param() set a name that is one of the call's known parameters,
\* doit() ends with Error::FieldClash naming such a field, after
\* finished(false), without a token having been asked for and without a
\* request having been sent.
C1_FieldClash ==
    (Started /\ DOMAIN call._additional_params \cap KnownParameters(call.kind) # {})
    => /\ pc = "done"
       /\ result.type = "Err"
       /\ result.error = "FieldClash"
       /\ result.field \in DOMAIN call._additional_params \cap KnownParameters(call.kind)
       /\ iter = <<"begin", "finished(false)">>
       /\ nTokens = 0
       /\ nRequests = 0
       /\ request = NoRequest

C1_Witness ==
    /\ pc = "done"
    /\ call.kind = "orders_get"
    /\ DOMAIN call._additional_params = {"orderId", "key"}
    /\ result = ErrField("FieldClash", "orderId")

\* C2: when every name set through param() is a documented additional
\* parameter or a global parameter the CLI forwards, doit() does not fail
\* with a field clash: it goes on to the request.
C2_DocumentedParamsProceed ==
    (/\ Started
     /\ DOMAIN call._additional_params # {}
     /\ DOMAIN call._additional_params \subseteq AdditionalParameters \cup CliParamNames)
    => /\ result # ErrField("FieldClash", "alt")
       /\ pc # "done" => \A n \in DOMAIN call._additional_params :
                            ValuesOf(params, n) = <<call._additional_params[n]>>

\* C3: after a transport error the delegate's http_error was asked exactly
\* once; on Retry::After the loop is back at its top with nothing returned,
\* otherwise finished(false) was called and Error::HttpError is returned.
C3_TransportError ==
    /\ resp = "Err"
       => /\ Asked("http_error") = 1
          /\ Asked("http_failure") = 0
          /\ Count(iter, "http_error:Retry") = 1
             => pc = "token" /\ result = NoResult /\ Finished = 0
          /\ Count(iter, "http_error:Abort") = 1
             => /\ pc = "done"
                /\ result = Err("HttpError")
                /\ Finished = 1
                /\ iter[Len(iter)] = "finished(false)"
    /\ (result.type = "Err" /\ result.error = "HttpError") => resp = "Err"

C3_Witness ==
    /\ nRequests = 2
    /\ resp = "Err"
    /\ result = Err("HttpError")

\* C4: after a response without a success status the delegate's
\* http_failure was asked; on Retry::After the loop is back at its top,
\* otherwise finished(false) was called and the result is Error::BadRequest
\* with the parsed body if the body is JSON, Error::Failure with the
\* response if it is not.
C4_HttpFailure ==
    /\ (resp \in {"FailJson", "FailText"} /\ pc # "response")
       => /\ Asked("http_failure") = 1
          /\ Asked("http_error") = 0
          /\ Count(iter, "http_failure:Retry") = 1
             => pc = "token" /\ result = NoResult /\ Finished = 0
          /\ Count(iter, "http_failure:Abort") = 1
             => /\ pc = "done"
                /\ Finished = 1
                /\ iter[Len(iter)] = "finished(false)"
                /\ resp = "FailJson" => result = ErrWith("BadRequest", "error_value")
                /\ resp = "FailText" => result = ErrWith("Failure", "restored_response")
    /\ (result.type = "Err" /\ result.error = "BadRequest") => resp = "FailJson"
    /\ (result.type = "Err" /\ result.error = "Failure") => resp = "FailText"

C4_Witness ==
    /\ nRequests = 2
    /\ resp = "FailJson"
    /\ result = ErrWith("BadRequest", "error_value")

\* C5: every request sent carries a token, given by the authenticator or by
\* the delegate's token() in the loop iteration that sent the request.
C5_RequestsCarryToken ==
    /\ request.sent
       => /\ Len(request.authorization) = 1
          /\ request.authorization[1].from \in {"auth", "dlg"}
          /\ request.authorization[1].iteration = request.iteration
    /\ pc \in {"request", "response"}
       => /\ request.iteration = iteration
          /\ request.authorization = token
          /\ request.authorization[1].from = "auth" => iter[1] = "auth.token:Ok"
          /\ request.authorization[1].from = "dlg"
             => SubSeq(iter, 1, 2) = <<"auth.token:Err", "dlg.token:Some">>
    /\ nRequests <= nTokens

C5_Witness ==
    /\ pc = "response"
    /\ nRequests = 2
    /\ request.authorization = <<Token("dlg", 2)>>

\* C6: if the authenticator failed and the delegate's token() returned None,
\* doit() called finished(false) and returns Error::MissingToken; in that
\* iteration no request was sent and neither http_error nor http_failure was
\* asked.
C6_MissingToken ==
    /\ Count(iter, "dlg.token:None") > 0
       => /\ pc = "done"
          /\ result = Err("MissingToken")
          /\ iter = <<"auth.token:Err", "dlg.token:None", "finished(false)">>
          /\ nRequests = iteration - 1
          /\ request.sent => request.iteration < iteration
    /\ result = Err("MissingToken") => Count(iter, "dlg.token:None") = 1

C6_Witness ==
    /\ result = Err("MissingToken")
    /\ iteration = 2
    /\ nRequests = 1

\* C7: after add_scope(None) the builder has no scope, and a doit() that
\* follows asks for the token with no scope at all.
C7_NoneRemovesScopes ==
    scopeNone => /\ pc = "build" => call._scopes = <<>>
                 /\ nTokens > 0 => authScopes = <<>>

\* C8: the token is asked for the default scope alone if no scope was
\* added, and for the added scopes alone if one was.
C8_TokenScopes ==
    nTokens > 0
    => Range(authScopes) = IF scopesAdded = {} THEN {DefaultScope} ELSE scopesAdded

C8_Witness ==
    /\ nTokens > 0
    /\ scopesAdded = {OtherScope}
    /\ authScopes = <<OtherScope>>

\* C9: the scopes of a builder are the set of the scopes added: each is held
\* once and in ascending order, however often and in whichever order
\* add_scope was called, and so are the scopes passed to the authenticator.
C9_ScopesAreASet ==
    /\ pc = "build" => /\ StrictlyAscending(call._scopes)
                       /\ Range(call._scopes) = scopesAdded
    /\ nTokens > 0 => StrictlyAscending(authScopes)

C9_Witness ==
    /\ nTokens > 0
    /\ scopesAdded = Scopes
    /\ authScopes = ScopeOrder

\* C10: for every repeated property the values of the query pairs with its
\* name are the values appended, in the order of the calls, each as often
\* as it was appended.
C10_RepeatedInOrder ==
    /\ pc \in {"token", "request", "response"}
       => \A n \in DOMAIN appended : ValuesOf(params, n) = appended[n]
    /\ request.sent
       => \A n \in DOMAIN appended : ValuesOf(request.query, n) = appended[n]

C10_Witness ==
    /\ request.sent
    /\ call.kind = "store_infos_list"
    /\ appended["countries"] = <<"b", "a">>

\* The values joined with the separator between them.
RECURSIVE JoinWith(_, _)
JoinWith(values, sep) ==
    IF values = <<>> THEN ""
    ELSE IF Len(values) = 1 THEN values[1]
    ELSE values[1] \o sep \o JoinWith(Tail(values), sep)

\* C11: a repeated property that got values is sent as one query pair, whose
\* value is the appended values, in their order, with '/' between them.
C11_SlashSeparated ==
    request.sent
    => \A n \in DOMAIN appended :
          appended[n] # <<>>
          => ValuesOf(request.query, n) = <<JoinWith(appended[n], "/")>>

\* C14: doit() returns Ok exactly when a request came back with a success
\* status and a body that decoded; Ok carries the response and the decoded
\* value and follows the one call of finished(true), and finished(true) is
\* not called when doit() returns an error.
C14_OkOnSuccess ==
    /\ result.type = "Ok" <=> (pc = "done" /\ resp = "OkDecoded")
    /\ result.type = "Ok"
       => /\ result.carries = <<"res", "decoded">>
          /\ iter[Len(iter)] = "finished(true)"
          /\ Count(iter, "finished(true)") = 1
          /\ Count(iter, "finished(false)") = 0
    /\ result.type # "Ok" => Count(iter, "finished(true)") = 0

C14_Witness ==
    /\ result.type = "Ok"
    /\ nRequests = 2
    /\ request.iteration = 2

\* C16, as stated: when doit() has returned from its loop, the requests it
\* sent are one more than the Retry::After answers it got.
C16_OnePlusRetries ==
    (pc = "done" /\ iteration >= 1) => nRequests = 1 + nRetries

\* C16, amended: the loop starts an iteration again only after a
\* Retry::After answer, and an iteration sends one request unless no token
\* was obtained. So the loop made one iteration more than it got
\* Retry::After answers, and doit() returns with one request more than
\* Retry::After answers, or with as many when it returns MissingToken.
C16_RequestsAndRetries ==
    /\ iteration >= 1 => iteration = 1 + nRetries
    /\ pc = "token" => nRequests = nRetries
    /\ pc \in {"request", "response"} => nRequests = 1 + nRetries
    /\ pc = "done" /\ iteration >= 1
       => nRequests = IF result = Err("MissingToken")
                      THEN nRetries
                      ELSE 1 + nRetries
    /\ nTokens = iteration

C16_Witness ==
    /\ pc = "done"
    /\ result = Err("MissingToken")
    /\ nRetries = 1
    /\ nRequests = nRetries

\* C15: as long as doit() was not called, whatever was called on the
\* builder, no token was asked for, no request was sent, no method of the
\* delegate was called and nothing was returned; doit() begins with the
\* delegate's begin(), and once it was called the builder is gone: it is
\* not changed any more and doit() does not start again.
C15_BuilderAccumulates ==
    /\ [](pc \in {"hub", "build"}
          => /\ nTokens = 0
             /\ nRequests = 0
             /\ iter = <<>>
             /\ ~request.sent
             /\ result = NoResult)
    /\ [][/\ (pc = "build" /\ pc' # "build") => iter'[1] = "begin"
          /\ Started => /\ call' = call
                        /\ ops' = ops
                        /\ pc' # "build"]_vars

C15_Witness ==
    /\ pc = "build"
    /\ ops = MaxOps
    /\ call._delegate
    /\ call._additional_params # <<>>
    /\ nTokens = 0
    /\ iter = <<>>

\* The properties of a call that hold one value.
SingleProps(kind) ==
    LET spec == ParamSpec(kind)
    IN  {spec[i] : i \in {j \in DOMAIN spec : spec[j].type \in SingleValued}}

\* The values as the query shows them.
AsText(p, values) ==
    [i \in DOMAIN values |->
        IF p.type = "OptionI32" THEN I32ToString(values[i]) ELSE values[i]]

\* The template from position i on with every placeholder replaced by the
\* value its parameter was given last.
RECURSIVE LastValuesFrom(_, _, _)
LastValuesFrom(text, i, kind) ==
    LET pairs == Replacements(kind)
        at(m) == {j \in DOMAIN pairs : StartsWithAt(text, m, pairs[j][1])}
        found == {m \in i..Len(text) : at(m) # {}}
        j == CHOOSE j \in at(Least(found)) : TRUE
    IN  IF found = {} THEN SubSeq(text, i, Len(text))
        ELSE SubSeq(text, i, Least(found) - 1)
                 \o lastSet[pairs[j][2]]
                 \o LastValuesFrom(text, Least(found) + Len(pairs[j][1]), kind)

\* C12: a single-valued property holds the value it was given last (a
\* required one its constructor argument until its setter is called), and
\* that is the value the request uses: the query pair of an optional
\* property holds it, and the URL of the request is the template with the
\* placeholder of every required property replaced by it (as Url::parse
\* encodes it). A builder method changes one property and leaves every
\* other one as it was.
C12_LastWriteWins ==
    /\ [](pc # "hub"
          => /\ \A p \in SingleProps(call.kind) :
                   /\ call[p.field] = lastSet[p.name]
                   /\ (request.sent /\ p.type # "String")
                      => ValuesOf(request.query, p.name)
                             = AsText(p, lastSet[p.name])
                   /\ (request.sent /\ p.type = "String")
                      => ValuesOf(request.query, p.name) = <<>>
             /\ pc = "request"
                => <<request.url>>
                       = ParseWithParams(
                             hub._base_url
                                 \o LastValuesFrom(UrlTemplate(call.kind), 1,
                                                   call.kind),
                             request.query))
    /\ [][(pc = "build" /\ pc' = "build")
          => /\ \A f, g \in DOMAIN call :
                   f # g => (call'[f] = call[f] \/ call'[g] = call[g])
             /\ \A p \in SingleProps(call.kind) :
                   lastSet'[p.name] = lastSet[p.name]
                   => call'[p.field] = call[p.field]]_vars

\* The URL with every placeholder of the template replaced by the value of
\* its own parameter, whatever the values are, as Url::parse encodes it.
RECURSIVE OwnValuesFrom(_, _, _)
OwnValuesFrom(text, i, c) ==
    LET pairs == Replacements(c.kind)
        at(m) == {j \in DOMAIN pairs : StartsWithAt(text, m, pairs[j][1])}
        found == {m \in i..Len(text) : at(m) # {}}
        j == CHOOSE j \in at(Least(found)) : TRUE
    IN  IF found = {} THEN SubSeq(text, i, Len(text))
        ELSE SubSeq(text, i, Least(found) - 1)
                 \o c[FieldOfName(c.kind, pairs[j][2])]
                 \o OwnValuesFrom(text, Least(found) + Len(pairs[j][1]), c)

ExpectedUrl(c) ==
    ParseWithParams(hub._base_url \o OwnValuesFrom(UrlTemplate(c.kind), 1, c),
                    request.query)[1]

\* C17: the URL of a request is the base URL and the template with each
\* placeholder replaced by the value of its own parameter, also when a value
\* holds the text of another placeholder.
C17_OwnValueOnly ==
    request.sent => request.url = ExpectedUrl(call)

\* C13: each of user_agent, base_url and root_url stores its argument and
\* returns what was stored before: the default on the first call, the
\* argument of the previous call of the same setter after that; a field
\* holds what its own setter was given last, so that no setter changes the
\* field of another.
C13_SettersReturnPrevious ==
    /\ hub._user_agent = hubArgs["user_agent"]
    /\ hub._base_url = hubArgs["base_url"]
    /\ hub._root_url = hubArgs["root_url"]
    /\ returned # NoReturn => returned.value = returned.previous

C13_Witness ==
    /\ returned.setter = "base_url"
    /\ returned.value = "u2"
    /\ hub._base_url = "https://u1/"
    /\ hub._user_agent = "u2"
    /\ hub._root_url = HubDefaults["root_url"]

====
